---- MODULE Spec2Model ----
(***************************************************************************)
(* tempdash dashboard main process (src/dashboard-preload.js): the sql.js  *)
(* engine loader, the log extractor, the CSV exporter, the three IPC       *)
(* handlers and the Electron start-up sequence.                            *)
(*                                                                         *)
(* JavaScript runs the main process on one thread: a synchronous function  *)
(* is one atomic step, and an async function is one step per stretch of    *)
(* code between two await points.                                          *)
(***************************************************************************)
EXTENDS Naturals, Sequences, FiniteSets

VARIABLES
    dbModule,   \* line 20: TRUE once the module variable holds the sql.js module
    calls,      \* one record per invocation of initializeDbModule
    app,        \* start-up sequence of lines 196-207
    load,       \* the 'load-database-log' handler invocation
    ext,        \* what the latest readDbFileAndQuery call did
    openDbs,    \* Database instances constructed and not yet closed
    exp,        \* the 'export-to-csv' handler invocation
    hint        \* the 'get-initial-backup-path' handler invocation

vars == <<dbModule, calls, app, load, ext, openDbs, exp, hint>>

----------------------------------------------------------------------------
(* Bounds *)

MaxCallers == 3     \* invocations of initializeDbModule
MaxSl == 2          \* serial numbers 1..MaxSl in a temp_logs table
MaxLen == 2         \* length of a sensor_name text handed to the exporter
MaxRows == 2        \* records handed to the exporter

Callers == 1..MaxCallers

----------------------------------------------------------------------------
(* Text: a JavaScript string is a sequence of one-character strings. *)

\* Array.prototype.join on an array of strings
RECURSIVE Join(_, _)
Join(ss, sep) ==
    IF Len(ss) = 0 THEN <<>>
    ELSE IF Len(ss) = 1 THEN ss[1]
    ELSE ss[1] \o sep \o Join(Tail(ss), sep)

Comma == ","
Quote == "\""
Newline == "\n"

Digits == <<"0", "1", "2", "3", "4", "5", "6", "7", "8", "9">>

\* Number to string, for the non-negative integers of the model
RECURSIVE Decimal(_)
Decimal(n) ==
    IF n < 10 THEN <<Digits[n + 1]>>
    ELSE Decimal(n \div 10) \o <<Digits[(n % 10) + 1]>>

LowerCase == <<"a", "b", "c", "d", "e", "f", "g", "h", "i", "j", "k", "l", "m",
               "n", "o", "p", "q", "r", "s", "t", "u", "v", "w", "x", "y", "z">>
UpperCase == <<"A", "B", "C", "D", "E", "F", "G", "H", "I", "J", "K", "L", "M",
               "N", "O", "P", "Q", "R", "S", "T", "U", "V", "W", "X", "Y", "Z">>

\* String.prototype.toUpperCase
toUpperCase(s) ==
    [i \in 1..Len(s) |->
        IF \E k \in 1..26 : LowerCase[k] = s[i]
        THEN UpperCase[CHOOSE k \in 1..26 : LowerCase[k] = s[i]]
        ELSE s[i]]

----------------------------------------------------------------------------
(* JavaScript values of a record field: null, undefined, a number, a string *)

Null == [t |-> "null", n |-> 0, s |-> <<>>]
Undefined == [t |-> "undefined", n |-> 0, s |-> <<>>]
Num(n) == [t |-> "number", n |-> n, s |-> <<>>]
Str(s) == [t |-> "string", n |-> 0, s |-> s]

\* String(value), as Array.prototype.join applies it to an element
ToText(v) ==
    IF v.t = "string" THEN v.s
    ELSE IF v.t = "number" THEN Decimal(v.n)
    ELSE <<>>

\* A JavaScript object: its own properties in insertion order, <<key, value>>
ObjectKeys(o) == [i \in 1..Len(o) |-> o[i][1]]

HasKey(o, k) == \E i \in 1..Len(o) : o[i][1] = k

\* o[k]
Get(o, k) ==
    IF HasKey(o, k) THEN o[CHOOSE i \in 1..Len(o) : o[i][1] = k][2]
    ELSE Undefined

\* o[k] = v
Put(o, k, v) ==
    IF HasKey(o, k)
    THEN [i \in 1..Len(o) |-> IF o[i][1] = k THEN <<k, v>> ELSE o[i]]
    ELSE Append(o, <<k, v>>)

\* An Error object: its class and its message, a sequence of text pieces
Err(name, message) == [name |-> name, message |-> message]
NoError == Err("", <<>>)

----------------------------------------------------------------------------
(* Engine loader, lines 20-47 *)

NoCall == [pc |-> "idle", outcome |-> "none", real |-> FALSE,
           early |-> FALSE, via |-> "none"]

\* Some call to initSqlJs has settled
InitCompleted == \E c \in Callers : calls[c].real /\ calls[c].pc = "done"

\* Lines 24-40: the guard, the WASM path and the call of initSqlJs, up to the
\* await. wasm is what the file system holds at WASM_PATH.
initializeDbModule(c, wasm) ==
    IF dbModule
    THEN [NoCall EXCEPT !.pc = "done", !.outcome = "returned"]
    ELSE IF wasm = "unreadable"
    THEN [NoCall EXCEPT !.pc = "done", !.outcome = "threw",
                        !.early = ~InitCompleted]
    ELSE [NoCall EXCEPT !.pc = "await", !.real = TRUE,
                        !.early = ~InitCompleted,
                        !.via = IF wasm = "present" THEN "wasmBinary"
                                ELSE "default"]

WasmStates == {"present", "absent", "unreadable"}

InitBegin(c) ==
    /\ calls[c].pc = "idle"
    /\ \E wasm \in WasmStates :
         calls' = [calls EXCEPT ![c] = initializeDbModule(c, wasm)]
    /\ UNCHANGED <<dbModule, app, load, ext, openDbs, exp, hint>>

\* Lines 37/40: the awaited promise fulfils and the module is stored
InitResolve(c) ==
    /\ calls[c].pc = "await"
    /\ dbModule' = TRUE
    /\ calls' = [calls EXCEPT ![c].pc = "done", ![c].outcome = "resolved"]
    /\ UNCHANGED <<app, load, ext, openDbs, exp, hint>>

\* InitReject with the flag set before the outcome is known
InitReject_SetsFlag(c) ==
    /\ calls[c].pc = "await"
    /\ dbModule' = TRUE
    /\ calls' = [calls EXCEPT ![c].pc = "done", ![c].outcome = "threw"]
    /\ UNCHANGED <<app, load, ext, openDbs, exp, hint>>

\* Lines 43-46: the awaited promise rejects; the error is logged and rethrown
InitReject(c) ==
    /\ calls[c].pc = "await"
    /\ calls' = [calls EXCEPT ![c].pc = "done", ![c].outcome = "threw"]
    /\ UNCHANGED <<dbModule, app, load, ext, openDbs, exp, hint>>

----------------------------------------------------------------------------
(* Files and the sql.js engine *)

K_sl == <<"s", "l">>
K_sensor_name == <<"s", "e", "n", "s", "o", "r", "_", "n", "a", "m", "e">>
K_status == <<"s", "t", "a", "t", "u", "s">>
K_temperature == <<"t", "e", "m", "p", "e", "r", "a", "t", "u", "r", "e">>
K_timestamp == <<"t", "i", "m", "e", "s", "t", "a", "m", "p">>

\* Line 64: the columns the fixed query selects
QueryColumns == <<K_sl, K_sensor_name, K_status, K_temperature, K_timestamp>>

\* A row of temp_logs: one value per column of the query; sl is the key of
\* the table, so a table holds at most one row per sl.
RowsOf(sl) ==
    {<<Num(sl), Str(<<"A">>), Str(<<"O", "K">>), temp, Str(<<"t", "1">>)>> :
        temp \in {Num(21), Null}}

Tables ==
    {t \in SUBSET (UNION {RowsOf(sl) : sl \in 1..MaxSl}) :
        \A r1, r2 \in t : r1[1] = r2[1] => r1 = r2}

\* What the chosen path holds: no readable file, bytes that are no database,
\* a database without temp_logs, a database with temp_logs, and a database
\* for which the engine hands back a row that is not an array.
File(kind, rows) == [kind |-> kind, rows |-> rows]
Files ==
    {File(k, {}) : k \in {"unreadable", "garbage", "notable"}}
    \cup {File("table", t) : t \in Tables}
    \cup {File("malformed", t) : t \in Tables \ {{}}}
NoFile == File("none", {})

Paths == {<<"home", "logs", "a.db">>, <<"b.db">>}

\* What the engine may do where its contract leaves it open: the Database
\* constructor may or may not reject bytes that are no database, and an
\* empty answer may be no result set or a result set without rows.
Engines == [ctorThrows : BOOLEAN, emptyAsResultSet : BOOLEAN]

\* ORDER BY sl DESC
RECURSIVE SortDesc(_)
SortDesc(rows) ==
    IF rows = {} THEN <<>>
    ELSE LET top == CHOOSE r \in rows : \A q \in rows : q[1].n <= r[1].n
         IN <<top>> \o SortDesc(rows \ {top})

\* db.exec of line 64: [threw, message, result], result a sequence of
\* [columns, values, arrays] (arrays: every row is an array)
Exec(file, eng) ==
    IF file.kind = "garbage"
    THEN [threw |-> TRUE, message |-> <<"file is not a database">>, result |-> <<>>]
    ELSE IF file.kind = "notable"
    THEN [threw |-> TRUE, message |-> <<"no such table: temp_logs">>, result |-> <<>>]
    ELSE IF file.rows = {} /\ ~eng.emptyAsResultSet
    THEN [threw |-> FALSE, message |-> <<>>, result |-> <<>>]
    ELSE [threw |-> FALSE, message |-> <<>>,
          result |-> <<[columns |-> QueryColumns,
                        values |-> SortDesc(file.rows),
                        arrays |-> file.kind # "malformed"]>>]

\* fs.readFileSync of line 60 fails
FsError(path) ==
    Err("Error", <<"ENOENT: no such file or directory, open ">> \o path)

----------------------------------------------------------------------------
(* Log extractor, lines 55-90 *)

\* MapRow reading every property from the row's first cell
RECURSIVE MapRow_FirstCell(_, _, _, _)
MapRow_FirstCell(columns, row, index, entry) ==
    IF index > Len(columns) THEN entry
    ELSE MapRow_FirstCell(columns, row, index + 1,
                          Put(entry, columns[index], row[1]))

\* Lines 75-79: one object per row, a property per column
RECURSIVE MapRow(_, _, _, _)
MapRow(columns, row, index, entry) ==
    IF index > Len(columns) THEN entry
    ELSE MapRow(columns, row, index + 1, Put(entry, columns[index], row[index]))

\* Lines 74-80
MapRows(columns, rows) ==
    [i \in 1..Len(rows) |-> MapRow(columns, rows[i], 1, <<>>)]

Body(db, ok, value, cause, reads, failedAt) ==
    [db |-> db, ok |-> ok, value |-> value, cause |-> cause, reads |-> reads,
     failedAt |-> failedAt]

\* Lines 59-82, the body of the try
TryBody(path, file, eng) ==
    IF file.kind = "unreadable"
    THEN Body(FALSE, FALSE, <<>>, FsError(path), 1, "read")
    ELSE IF file.kind = "garbage" /\ eng.ctorThrows
    THEN Body(FALSE, FALSE, <<>>,
              Err("Error", <<"file is not a database">>), 1, "open")
    ELSE LET r == Exec(file, eng) IN
         IF r.threw
         THEN Body(TRUE, FALSE, <<>>, Err("Error", r.message), 1, "query")
         ELSE IF Len(r.result) = 0 \/ Len(r.result[1].values) = 0
         THEN Body(TRUE, TRUE, <<>>, NoError, 1, "none")
         ELSE IF ~r.result[1].arrays
         THEN Body(TRUE, FALSE, <<>>,
                   Err("TypeError", <<"Cannot read properties of null">>),
                   1, "map")
         ELSE Body(TRUE, TRUE, MapRows(r.result[1].columns, r.result[1].values),
                   NoError, 1, "none")

\* Lines 84-86: whatever the try threw is wrapped in a new Error
CatchWrap(cause) ==
    Err("Error", <<"Failed to process database file: ">> \o cause.message)

\* FinallyClose as a close at the end of the try block instead
FinallyClose_OnSuccessOnly(body) == IF body.db /\ body.ok THEN 1 ELSE 0

\* Lines 87-89: the number of db.close() calls of the finally block
FinallyClose(body) == IF body.db THEN 1 ELSE 0

Trace(called, ready, path, file, reads, opened, closes, threw, error, value, failedAt) ==
    [called |-> called, ready |-> ready, path |-> path, file |-> file,
     reads |-> reads, opened |-> opened, closes |-> closes, threw |-> threw,
     error |-> error, value |-> value, failedAt |-> failedAt]

NoTrace == Trace(FALSE, FALSE, <<>>, NoFile, 0, FALSE, 0, FALSE, NoError,
                 <<>>, "none")

\* Lines 55-90: the whole synchronous call
readDbFileAndQuery(ready, path, file, eng) ==
    IF ~ready
    THEN Trace(TRUE, FALSE, path, file, 0, FALSE, 0, TRUE,
               Err("Error", <<"SQL.js library not initialized.">>), <<>>,
               "guard")
    ELSE LET body == TryBody(path, file, eng) IN
         Trace(TRUE, TRUE, path, file, body.reads, body.db,
               FinallyClose(body), ~body.ok,
               IF body.ok THEN NoError ELSE CatchWrap(body.cause),
               body.value, body.failedAt)

----------------------------------------------------------------------------
(* 'load-database-log', lines 96-121 *)

\* A reply object: the properties it has, and their values
Reply(keys, success, message, filePath, fileName, data) ==
    [keys |-> keys, success |-> success, message |-> message,
     filePath |-> filePath, fileName |-> fileName, data |-> data]

NoReply == Reply({}, FALSE, <<>>, <<>>, <<>>, <<>>)

\* Lines 105 and 162
Canceled == Reply({"success", "message"}, FALSE, <<"Canceled">>, <<>>, <<>>, <<>>)

\* path.basename
basename(path) == IF Len(path) = 0 THEN <<>> ELSE <<path[Len(path)]>>

\* Lines 110-120
LoadReply(filePath, trace) ==
    IF trace.threw
    THEN Reply({"success", "message", "filePath"}, FALSE, trace.error.message,
               filePath, <<>>, <<>>)
    ELSE Reply({"success", "filePath", "fileName", "data"}, TRUE, <<>>,
               filePath, basename(filePath), trace.value)

\* Lines 104-120, after the dialog has come back: the reply, and what
\* readDbFileAndQuery did when it was called
loadDatabaseLog(canceled, filePaths, file, eng) ==
    IF canceled \/ Len(filePaths) = 0
    THEN [reply |-> Canceled, trace |-> NoTrace]
    ELSE LET filePath == filePaths[1]
             trace == readDbFileAndQuery(dbModule, filePath, file, eng)
         IN [reply |-> LoadReply(filePath, trace), trace |-> trace]

LoadSlot(pc, reply, dialogs) == [pc |-> pc, reply |-> reply, dialogs |-> dialogs]

\* Lines 96-102: the handler runs up to the await of showOpenDialog
LoadInvoke ==
    /\ load.pc # "dialog"
    /\ load' = LoadSlot("dialog", NoReply, 1)
    /\ ext' = NoTrace
    /\ UNCHANGED <<dbModule, calls, app, openDbs, exp, hint>>

\* Lines 104-120: the dialog comes back and the handler runs to its end
LoadDialogReturn ==
    /\ load.pc = "dialog"
    /\ \E canceled \in BOOLEAN, filePaths \in {<<>>} \cup {<<p>> : p \in Paths},
          file \in Files, eng \in Engines :
         LET r == loadDatabaseLog(canceled, filePaths, file, eng) IN
         /\ ext' = r.trace
         /\ openDbs' = (openDbs + (IF r.trace.opened THEN 1 ELSE 0))
                         - r.trace.closes
         /\ load' = LoadSlot("done", r.reply, load.dialogs)
    /\ UNCHANGED <<dbModule, calls, app, exp, hint>>

----------------------------------------------------------------------------
(* 'export-to-csv', lines 125-172 *)

\* The data argument: undefined, null, a number other than 0, or an array
\* whose elements are objects or null
Data(t, items) == [t |-> t, items |-> items]
Obj(fields) == [t |-> "object", fields |-> fields]
NullItem == [t |-> "null", fields |-> <<>>]

\* NoData as data === undefined || data.length === 0
NoData_MissesNull(data) ==
    \/ data.t = "undefined"
    \/ data.t = "array" /\ Len(data.items) = 0

\* Line 126: !data || data.length === 0
NoData(data) ==
    \/ data.t \in {"undefined", "null"}
    \/ data.t = "array" /\ Len(data.items) = 0

\* Line 130
Headers(data) == ObjectKeys(data.items[1].fields)

\* Lines 130 and 142 raise a TypeError: Object.keys of undefined or null, or
\* a property read on a null row
ExportThrows(data) ==
    \/ data.t # "array"
    \/ data.items[1].t = "null"
    \/ /\ Len(Headers(data)) > 0
       /\ \E i \in 1..Len(data.items) : data.items[i].t = "null"

S_SensorName == <<"S", "e", "n", "s", "o", "r", " ", "N", "a", "m", "e">>
S_Temperature == <<"T", "e", "m", "p", "e", "r", "a", "t", "u", "r", "e", " ",
                   "(", "C", ")">>
S_TimeStamp == <<"T", "i", "m", "e", " ", "S", "t", "a", "m", "p">>

\* Lines 132-137
csvHeaders(headers) ==
    Join([i \in 1..Len(headers) |->
            IF headers[i] = K_sensor_name THEN S_SensorName
            ELSE IF headers[i] = K_temperature THEN S_Temperature
            ELSE IF headers[i] = K_timestamp THEN S_TimeStamp
            ELSE toUpperCase(headers[i])],
         <<Comma>>)

\* value.replace(/"/g, '""')
RECURSIVE DoubleQuotes(_)
DoubleQuotes(s) ==
    IF Len(s) = 0 THEN <<>>
    ELSE (IF Head(s) = Quote THEN <<Quote, Quote>> ELSE <<Head(s)>>)
         \o DoubleQuotes(Tail(s))

Includes(s, ch) == \E i \in 1..Len(s) : s[i] = ch

\* RenderValue quoting on an embedded double quote as well
RenderValue_QuotesOnQuote(value) ==
    IF value.t \in {"null", "undefined"} THEN Str(<<>>)
    ELSE IF value.t = "string"
            /\ (Includes(value.s, Comma) \/ Includes(value.s, Quote))
    THEN Str(<<Quote>> \o DoubleQuotes(value.s) \o <<Quote>>)
    ELSE value

\* Lines 142-148: the value a field is rendered as
RenderValue(value) ==
    IF value.t \in {"null", "undefined"} THEN Str(<<>>)
    ELSE IF value.t = "string" /\ Includes(value.s, Comma)
    THEN Str(<<Quote>> \o DoubleQuotes(value.s) \o <<Quote>>)
    ELSE value

\* Lines 140-149: one line of text per record
csvRows(data) ==
    LET headers == Headers(data) IN
    [r \in 1..Len(data.items) |->
        Join([h \in 1..Len(headers) |->
                ToText(RenderValue(Get(data.items[r].fields, headers[h])))],
             <<Comma>>)]

\* Line 151
csvContent(data) ==
    Join(<<csvHeaders(Headers(data))>> \o csvRows(data), <<Newline>>)

ExpSlot(pc, data, csv, reply, dialogs, writes, written) ==
    [pc |-> pc, data |-> data, csv |-> csv, reply |-> reply,
     dialogs |-> dialogs, writes |-> writes, written |-> written]

NoDataArg == Data("none", <<>>)

\* Lines 125-159: the handler runs to its return, to the TypeError that
\* rejects its promise, or to the await of showSaveDialog
exportToCsv(data) ==
    IF NoData(data)
    THEN ExpSlot("done", data, <<>>,
                 Reply({"success", "message"}, FALSE,
                       <<"No data provided for export.">>, <<>>, <<>>, <<>>),
                 0, 0, <<>>)
    ELSE IF ExportThrows(data)
    THEN ExpSlot("rejected", data, <<>>, NoReply, 0, 0, <<>>)
    ELSE ExpSlot("dialog", data, csvContent(data), NoReply, 1, 0, <<>>)

ExportInvoke(data) ==
    /\ exp.pc # "dialog"
    /\ exp' = exportToCsv(data)
    /\ UNCHANGED <<dbModule, calls, app, load, ext, openDbs, hint>>

\* exportSave answering a failed write with the reply of a cancel
exportSave_WriteFailAsCancel(slot, canceled, filePath, writeOk) ==
    IF canceled \/ Len(filePath) = 0
    THEN [slot EXCEPT !.pc = "done", !.reply = Canceled]
    ELSE IF writeOk
    THEN [slot EXCEPT !.pc = "done", !.writes = 1, !.written = slot.csv,
               !.reply = Reply({"success", "message"}, TRUE,
                               <<"Data successfully exported to CSV at: ">>
                                  \o filePath, <<>>, <<>>, <<>>)]
    ELSE [slot EXCEPT !.pc = "done", !.writes = 1, !.reply = Canceled]

\* Lines 161-171, after the dialog has come back
exportSave(slot, canceled, filePath, writeOk) ==
    IF canceled \/ Len(filePath) = 0
    THEN [slot EXCEPT !.pc = "done", !.reply = Canceled]
    ELSE IF writeOk
    THEN [slot EXCEPT !.pc = "done", !.writes = 1, !.written = slot.csv,
               !.reply = Reply({"success", "message"}, TRUE,
                               <<"Data successfully exported to CSV at: ">>
                                  \o filePath, <<>>, <<>>, <<>>)]
    ELSE [slot EXCEPT !.pc = "done", !.writes = 1,
               !.reply = Reply({"success", "message"}, FALSE,
                               <<"Failed to save CSV file: ",
                                 "EACCES: permission denied">>,
                               <<>>, <<>>, <<>>)]

ExportDialogReturn ==
    /\ exp.pc = "dialog"
    /\ \E canceled \in BOOLEAN, filePath \in {<<>>, <<"out.csv">>},
          writeOk \in BOOLEAN :
         exp' = exportSave(exp, canceled, filePath, writeOk)
    /\ UNCHANGED <<dbModule, calls, app, load, ext, openDbs, hint>>

----------------------------------------------------------------------------
(* 'get-initial-backup-path', lines 175-177 *)

\* app.getPath('userData')
UserData == <<"home", "tempdash">>

\* Line 176: what the handler returns, a path and no reply object
getInitialBackupPath == [pc |-> "done", shape |-> "string",
                         value |-> UserData \o <<"backups">>]

NoHint == [pc |-> "idle", shape |-> "none", value |-> <<>>]

GetInitialBackupPath ==
    /\ hint.pc = "idle"
    /\ hint' = getInitialBackupPath
    /\ UNCHANGED <<dbModule, calls, app, load, ext, openDbs, exp>>

----------------------------------------------------------------------------
(* Electron set-up, lines 182-207 *)

AppState(pc, win, activate, darwin) ==
    [pc |-> pc, win |-> win, activate |-> activate, darwin |-> darwin]

\* Lines 196-197: the whenReady callback runs up to its await
AppWhenReady ==
    /\ app.pc = "launching"
    /\ calls[1].pc = "idle"
    /\ \E wasm \in WasmStates :
         calls' = [calls EXCEPT ![1] = initializeDbModule(1, wasm)]
    /\ app' = [app EXCEPT !.pc = "initializing"]
    /\ UNCHANGED <<dbModule, load, ext, openDbs, exp, hint>>

\* whenReadyContinue with the failure of initializeDbModule swallowed
whenReadyContinue_IgnoresFailure(outcome) ==
    [app EXCEPT !.pc = "running", !.win = app.win + 1, !.activate = TRUE]

\* Lines 198-202: what follows the await. When initializeDbModule threw the
\* callback ends there: no window, no activate listener.
whenReadyContinue(outcome) ==
    IF outcome = "threw"
    THEN [app EXCEPT !.pc = "failed"]
    ELSE [app EXCEPT !.pc = "running", !.win = app.win + 1, !.activate = TRUE]

AppContinue ==
    /\ app.pc = "initializing"
    /\ calls[1].pc = "done"
    /\ app' = whenReadyContinue(calls[1].outcome)
    /\ UNCHANGED <<dbModule, calls, load, ext, openDbs, exp, hint>>

\* Lines 200-202: the activate event (macOS) with no window left
AppActivate ==
    /\ app.pc = "running"
    /\ app.activate
    /\ app.darwin
    /\ app.win = 0
    /\ app' = [app EXCEPT !.win = app.win + 1]
    /\ UNCHANGED <<dbModule, calls, load, ext, openDbs, exp, hint>>

\* The user closes a window; lines 205-207 quit with the last one, except
\* on macOS
AppWindowClose ==
    /\ app.pc = "running"
    /\ app.win > 0
    /\ app' = [app EXCEPT !.win = app.win - 1,
                          !.pc = IF app.win = 1 /\ ~app.darwin THEN "quit"
                                 ELSE app.pc]
    /\ UNCHANGED <<dbModule, calls, load, ext, openDbs, exp, hint>>

\* A window is what sends the handlers their requests
WindowOpen == app.pc = "running" /\ app.win > 0
Alive == app.pc # "quit"

----------------------------------------------------------------------------
(* Inputs *)

\* The record of the specification's example, with an integer temperature
SampleRecord ==
    <<<<K_sl, Num(1)>>, <<K_sensor_name, Str(<<"A", Comma, "B">>)>>,
      <<K_status, Str(<<"O", "K">>)>>, <<K_temperature, Num(21)>>,
      <<K_timestamp, Null>>>>

SmallData ==
    {Data("undefined", <<>>), Data("null", <<>>), Data("number", <<>>),
     Data("array", <<>>), Data("array", <<NullItem>>),
     Data("array", <<Obj(SampleRecord)>>),
     Data("array", <<Obj(SampleRecord), NullItem>>),
     Data("array", <<Obj(<<>>), NullItem>>)}

CsvChars == {"a", Comma, Quote}
Texts == UNION {[1..k -> CsvChars] : k \in 0..MaxLen}

\* Records with sl, and with sensor_name a text, null or missing
Records ==
    {<<<<K_sl, Num(21)>>, <<K_sensor_name, v>>>> :
        v \in {Str(s) : s \in Texts} \cup {Null}}
    \cup {<<<<K_sl, Num(21)>>>>}

RichData ==
    {Data("array", [i \in 1..Len(rs) |-> Obj(rs[i])]) :
        rs \in UNION {[1..n -> Records] : n \in 1..MaxRows}}

----------------------------------------------------------------------------
(* Specifications *)

InitModule ==
    /\ dbModule = FALSE
    /\ calls = [c \in Callers |-> NoCall]
    /\ load = LoadSlot("idle", NoReply, 0)
    /\ ext = NoTrace
    /\ openDbs = 0
    /\ exp = ExpSlot("idle", NoDataArg, <<>>, NoReply, 0, 0, <<>>)
    /\ hint = NoHint

Init == InitModule /\ app = AppState("launching", 0, FALSE, FALSE)

\* The handlers and the extractor, driven directly, around one call of the
\* engine loader
Next ==
    \/ InitBegin(1)
    \/ InitResolve(1)
    \/ InitReject(1)
    \/ LoadInvoke
    \/ LoadDialogReturn
    \/ \E data \in SmallData : ExportInvoke(data)
    \/ ExportDialogReturn
    \/ GetInitialBackupPath

Spec == Init /\ [][Next]_vars

\* The engine loader under any number of overlapping calls
NextLoader ==
    \/ \E c \in Callers : InitBegin(c)
    \/ \E c \in Callers : InitResolve(c)
    \/ \E c \in Callers : InitReject(c)

SpecLoader == Init /\ [][NextLoader]_vars

\* The exporter on every record sequence of the bounds
NextCsv ==
    \/ exp.pc = "idle" /\ \E data \in RichData : ExportInvoke(data)
    \/ ExportDialogReturn

SpecCsv == Init /\ [][NextCsv]_vars

\* A run of the application
InitApp ==
    /\ InitModule
    /\ \E darwin \in BOOLEAN : app = AppState("launching", 0, FALSE, darwin)

NextApp ==
    \/ AppWhenReady
    \/ Alive /\ InitResolve(1)
    \/ Alive /\ InitReject(1)
    \/ AppContinue
    \/ AppActivate
    \/ AppWindowClose
    \/ WindowOpen /\ LoadInvoke
    \/ Alive /\ LoadDialogReturn
    \/ WindowOpen /\ \E data \in SmallData : ExportInvoke(data)
    \/ Alive /\ ExportDialogReturn
    \/ WindowOpen /\ GetInitialBackupPath

SpecApp == InitApp /\ [][NextApp]_vars

----------------------------------------------------------------------------
(* Engine loader: claims *)

\* The calls that began before any initSqlJs call had settled, and ran one
EarlyInits == {c \in Callers : calls[c].early /\ calls[c].real}

\* C1: among the calls of initializeDbModule begun before the first
\* initialization has completed, at most one runs initSqlJs.
C1_SingleInitialization == Cardinality(EarlyInits) <= 1

Succeeded == \E c \in Callers : calls[c].outcome = "resolved"

\* The flag is set exactly when some initialization has succeeded; a call
\* that returned at the guard ran no initialization and found the flag set.
C3_State ==
    /\ dbModule <=> Succeeded
    /\ \A c \in Callers :
         calls[c].outcome = "returned" => ~calls[c].real /\ dbModule

\* A step in which a call throws leaves the flag as it was; a call that
\* begins with the flag unset attempts an initialization, one that begins
\* with it set returns at once.
C3_Step ==
    \A c \in Callers :
        /\ calls[c].outcome # "threw" /\ calls'[c].outcome = "threw"
             => dbModule' = dbModule
        /\ calls[c].pc = "idle" /\ calls'[c].pc # "idle"
             => IF dbModule
                THEN calls'[c].pc = "done" /\ calls'[c].outcome = "returned"
                ELSE calls'[c].outcome # "returned"
                     /\ (calls'[c].real \/ calls'[c].outcome = "threw")

\* C3: dbModule is set only by an initialization that succeeded: a failed
\* attempt leaves it unset and its error reaches the caller, a later call
\* then initializes again, and after a success every later call returns
\* without initializing.
C3_FlagOnlyOnSuccess == []C3_State /\ [][C3_Step]_vars

\* A failed initialization, a later call that initialized again and
\* succeeded, and a call after that which returned at the guard
C3_Witness ==
    \E a, b, c \in Callers :
        /\ calls[a].outcome = "threw" /\ calls[a].real
        /\ calls[b].outcome = "resolved" /\ ~calls[b].early
        /\ calls[c].outcome = "returned"

----------------------------------------------------------------------------
(* Log extractor: claims *)

\* C2: in every call of readDbFileAndQuery a constructed Database is
\* closed exactly once before the call ends, by return or by error, a call
\* that constructed none calls close never, and no instance is left open.
C2_ClosedExactlyOnce ==
    /\ openDbs = 0
    /\ ext.called => ext.closes = (IF ext.opened THEN 1 ELSE 0)
    /\ ext.called /\ ext.failedAt \in {"guard", "read", "open"}
         => ~ext.opened /\ ext.closes = 0
    /\ ext.called /\ ext.failedAt \in {"query", "map"}
         => ext.opened /\ ext.threw /\ ext.closes = 1

\* A call in which the query failed on a constructed instance
C2_Witness ==
    /\ ext.called /\ ext.threw /\ ext.failedAt = "query"
    /\ ext.opened /\ ext.closes = 1

\* The kind of an error: its class and the fixed head of its message
ErrorKind(e) == <<e.name, Head(e.message)>>

\* C4: a failed file read fails the call with an error that carries the
\* path and whose kind differs from that of every failure to open or query
\* the file, and opens no database.
C4_FileReadErrorDistinct ==
    ext.called /\ ext.failedAt = "read" =>
        /\ ext.threw /\ ~ext.opened
        /\ \A file \in Files, eng \in Engines :
             LET other == readDbFileAndQuery(TRUE, ext.path, file, eng) IN
             other.failedAt \in {"open", "query", "map"}
                => ErrorKind(other.error) # ErrorKind(ext.error)

\* The result is a sequence with one object per row of the table, by
\* descending sl, each with the query's columns in order and the row's
\* value under each.
IsRecordSetOf(value, rows) ==
    /\ Len(value) = Cardinality(rows)
    /\ \A i \in 1..Len(value) :
         /\ ObjectKeys(value[i]) = QueryColumns
         /\ [k \in 1..Len(value[i]) |-> value[i][k][2]] \in rows
    /\ \A i, j \in 1..Len(value) :
         i < j => value[i][1][2].n > value[j][1][2].n

\* C9: on a valid temp_logs table the call returns one record per row, in
\* the order of the query (descending sl), each record with exactly the
\* returned columns and the row's values; on a table without rows it
\* returns the empty sequence and no error.
C9_RecordPerRow ==
    ext.called /\ ext.ready /\ ext.file.kind = "table" =>
        /\ ~ext.threw
        /\ IsRecordSetOf(ext.value, ext.file.rows)
        /\ ext.file.rows = {} => ext.value = <<>>
        /\ load.reply.success /\ load.reply.data = ext.value

\* A table of two rows, one with a null temperature, has been extracted
C9_Witness ==
    /\ ext.called /\ ext.ready /\ ext.file.kind = "table"
    /\ Cardinality(ext.file.rows) = 2
    /\ Len(ext.value) = 2
    /\ \E r \in ext.file.rows : r[4] = Null

----------------------------------------------------------------------------
(* Handlers: claims *)

\* C5: every handler answers with a reply object and never raises.
C5_AlwaysEnvelope ==
    /\ exp.pc # "rejected"
    /\ exp.pc = "done" => "success" \in exp.reply.keys
    /\ load.pc = "done" => "success" \in load.reply.keys
    /\ hint.pc = "done" => hint.shape = "envelope"

\* The data argument is absent or an empty sequence
EmptyOrAbsent(data) ==
    data \in {Data("undefined", <<>>), Data("null", <<>>), Data("array", <<>>)}

\* C6: an export of an empty or absent record sequence answers with the
\* no-data failure; no save dialog is opened and no file is written.
C6_NoDataNoEffect ==
    exp.pc # "idle" /\ EmptyOrAbsent(exp.data) =>
        /\ exp.pc = "done"
        /\ ~exp.reply.success
        /\ exp.reply.message = <<"No data provided for export.">>
        /\ exp.dialogs = 0 /\ exp.writes = 0 /\ exp.written = <<>>

\* An export of null has been answered
C6_Witness ==
    /\ exp.pc = "done" /\ exp.data = Data("null", <<>>)
    /\ exp.reply.message = <<"No data provided for export.">>

\* C8: the reply to a cancelled dialog is the reply of no failure: a load
\* answers with it only when no extraction was attempted, an export only
\* when the dialog was shown and nothing was written; and on cancel no file
\* is read, no database opened, no file written.
C8_CancelDistinct ==
    /\ load.pc = "done" => (load.reply = Canceled <=> ~ext.called)
    /\ exp.pc = "done"
         => (exp.reply = Canceled <=> exp.dialogs = 1 /\ exp.writes = 0)
    /\ load.pc = "done" /\ load.reply = Canceled
         => ext.reads = 0 /\ ~ext.opened /\ openDbs = 0
    /\ exp.pc = "done" /\ exp.reply = Canceled => exp.written = <<>>

\* A cancelled load beside an export whose write failed
C8_Witness ==
    /\ load.pc = "done" /\ load.reply = Canceled
    /\ exp.pc = "done" /\ exp.writes = 1 /\ ~exp.reply.success

----------------------------------------------------------------------------
(* CSV exporter: claims *)

QuotesBefore(s, i) == Cardinality({k \in 1..(i - 1) : s[k] = Quote})

\* s with every double quote doubled, position by position
Doubled(s) ==
    [j \in 1..(Len(s) + QuotesBefore(s, Len(s) + 1)) |->
        s[CHOOSE i \in 1..Len(s) :
            /\ i + QuotesBefore(s, i) <= j
            /\ j <= i + QuotesBefore(s, i) + (IF s[i] = Quote THEN 1 ELSE 0)]]

\* The text of a field as the claim states it
ClaimField(v) ==
    IF v.t \in {"null", "undefined"} THEN <<>>
    ELSE IF v.t = "number" THEN Decimal(v.n)
    ELSE IF \E i \in 1..Len(v.s) : v.s[i] = Comma
    THEN <<Quote>> \o Doubled(v.s) \o <<Quote>>
    ELSE v.s

\* The lines of a text
RECURSIVE SplitLines(_, _)
SplitLines(text, line) ==
    IF Len(text) = 0 THEN <<line>>
    ELSE IF Head(text) = Newline THEN <<line>> \o SplitLines(Tail(text), <<>>)
    ELSE SplitLines(Tail(text), Append(line, Head(text)))

Rendered == exp.dialogs = 1

\* C7: every row of the document has one field per key of the first
\* record, in that order, joined by commas: null or missing as the empty
\* text, a text with a comma in double quotes with its double quotes
\* doubled, every other value unchanged and unquoted.
C7_RowRendering ==
    Rendered =>
        LET items == exp.data.items
            keys == ObjectKeys(items[1].fields)
            lines == SplitLines(exp.csv, <<>>)
        IN /\ Len(lines) = Len(items) + 1
           /\ \A r \in 1..Len(items) :
                lines[r + 1] =
                    Join([h \in 1..Len(keys) |->
                            ClaimField(Get(items[r].fields, keys[h]))],
                         <<Comma>>)

\* A document of two rows: a text with a comma and a double quote, and a
\* record without sensor_name
C7_Witness ==
    /\ Rendered /\ Len(exp.data.items) = 2
    /\ Get(exp.data.items[1].fields, K_sensor_name) = Str(<<Comma, Quote>>)
    /\ ~HasKey(exp.data.items[2].fields, K_sensor_name)

----------------------------------------------------------------------------
(* Application run: claims *)

\* C10: a window exists only after initializeDbModule has succeeded, none
\* is ever created after it failed, and no extraction runs into the
\* not-initialized error.
C10_ReadyBeforeWindow ==
    /\ app.win > 0 \/ app.activate
         => dbModule /\ calls[1].outcome \in {"resolved", "returned"}
    /\ calls[1].outcome = "threw"
         => app.win = 0 /\ ~app.activate /\ load.pc = "idle"
    /\ load.pc # "idle" => dbModule
    /\ ext.called => ext.ready /\ ext.failedAt # "guard"

\* A window is open and an extraction has run
C10_Witness == app.win > 0 /\ ext.called /\ ext.ready

====
